---- MODULE Spec2Model ----
(***************************************************************************)
(* Model of src/app.py (Way Academy chatbot): the Google Sheets reader,    *)
(* the lru_cache memo in front of it, course ordering and keyword         *)
(* matching, and the ManyChat webhook with the /courses and /faqs routes. *)
(*                                                                         *)
(* Python strings are sequences of one-character strings, so that         *)
(* strip(), lower(), split('|'), float() and the `in` substring test are  *)
(* computed and not assumed.  Long literals of the source are abbreviated *)
(* ("su" stands for the greeting 'сайн уу'); the abbreviation is noted    *)
(* where it is made.                                                       *)
(***************************************************************************)
EXTENDS Integers, Sequences, FiniteSets, TLC

(***************************************************************************)
(* Bounds of the model.                                                    *)
(***************************************************************************)
\* rows below the header line of the courses sheet
MaxRows == 2
\* the clock advances by TickStep seconds at a time, up to MaxTime
TickStep == 200
MaxTime == 400
\* requests served in one behaviour
MaxRequests == 2

\* Config.CACHE_TTL (seconds)
CACHE_TTL == 300
\* default priority of get_all_courses: x.get('priority', 999)
DefaultPriority == 999

(***************************************************************************)
(* str methods                                                             *)
(***************************************************************************)
Range(s) == {s[i] : i \in 1..Len(s)}

\* str.lower() on one character of the model's alphabet
LowerChar(c) ==
  CASE c = "A" -> "a"
    [] c = "B" -> "b"
    [] c = "E" -> "e"
    [] c = "H" -> "h"
    [] c = "R" -> "r"
    [] c = "T" -> "t"
    [] c = "U" -> "u"
    [] OTHER -> c

\* str.lower()
Lower(s) == [i \in 1..Len(s) |-> LowerChar(s[i])]

IsSpace(c) == c = " "

\* str.lstrip()
RECURSIVE LStrip(_)
LStrip(s) ==
  IF s # <<>> /\ IsSpace(Head(s)) THEN LStrip(Tail(s)) ELSE s

\* str.rstrip()
RECURSIVE RStrip(_)
RStrip(s) ==
  IF s # <<>> /\ IsSpace(s[Len(s)]) THEN RStrip(SubSeq(s, 1, Len(s) - 1)) ELSE s

\* str.strip()
Strip(s) == RStrip(LStrip(s))

\* Python `a in b` on strings: a is a contiguous substring of b ('' is in
\* every string)
IsSubstr(a, b) ==
  \E i \in 0..(Len(b) - Len(a)) : SubSeq(b, i + 1, i + Len(a)) = a

\* str.split(sep) for a one-character separator: always at least one segment
RECURSIVE Split(_, _)
Split(s, sep) ==
  IF \A i \in 1..Len(s) : s[i] # sep
  THEN <<s>>
  ELSE LET k == CHOOSE i \in 1..Len(s) :
                  s[i] = sep /\ \A j \in 1..(i - 1) : s[j] # sep
       IN  <<SubSeq(s, 1, k - 1)>> \o Split(SubSeq(s, k + 1, Len(s)), sep)

Digits == {"0", "1", "2", "3", "4", "5", "6", "7", "8", "9"}

DigitVal(c) ==
  CASE c = "0" -> 0 [] c = "1" -> 1 [] c = "2" -> 2 [] c = "3" -> 3
    [] c = "4" -> 4 [] c = "5" -> 5 [] c = "6" -> 6 [] c = "7" -> 7
    [] c = "8" -> 8 [] c = "9" -> 9

RECURSIVE DecimalVal(_)
DecimalVal(s) ==
  IF s = <<>> THEN 0
  ELSE 10 * DecimalVal(SubSeq(s, 1, Len(s) - 1)) + DigitVal(s[Len(s)])

\* float(s) raises ValueError: on the model's alphabet (letters, digits,
\* space, '|') float accepts exactly a non-empty run of digits with optional
\* surrounding whitespace
FloatRaises(s) == Strip(s) = <<>> \/ ~(Range(Strip(s)) \subseteq Digits)

\* float(s) when it does not raise
FloatVal(s) == DecimalVal(Strip(s))

\* list slice s[:n]
Take(s, n) == SubSeq(s, 1, IF Len(s) < n THEN Len(s) ELSE n)

\* dict.get(key, default)
Get(item, key, default) == IF key \in DOMAIN item THEN item[key] ELSE default

(***************************************************************************)
(* GoogleSheetsService: rows to records                                    *)
(***************************************************************************)
\* the default of item.get('is_active', 'True')
DefaultActive == <<"T", "r", "u", "e">>

\* lines 117-122: one row zipped with the header line; a cell the row does
\* not reach is "", a cell beyond the header is dropped
ZipRow(headers, row) ==
  [h \in Range(headers) |->
     LET i == CHOOSE j \in 1..Len(headers) : headers[j] = h
     IN  IF i <= Len(row) THEN row[i] ELSE <<>>]

\* line 125: item.get('is_active', 'True').strip().lower() == 'true'
IsActive(item) ==
  Lower(Strip(Get(item, "is_active", DefaultActive))) = <<"t", "r", "u", "e">>

\* lines 107-129: the records of a fetched value range (empty range: [])
Records(values) ==
  IF values = <<>> THEN <<>>
  ELSE LET headers == Head(values)
           items == [i \in 1..(Len(values) - 1) |-> ZipRow(headers, values[i + 1])]
           Keep(it) == IsActive(it)
       IN  SelectSeq(items, Keep)

\* get_sheet_data: result is the outcome of sheet.values().get().execute(),
\* [ok |-> TRUE, values |-> the value range] or [ok |-> FALSE] for an
\* exception; any exception is logged and becomes []
get_sheet_data(result) ==
  IF result.ok THEN Records(result.values) ELSE <<>>

(***************************************************************************)
(* get_all_courses: sorted(courses, key=lambda x: float(x.get('priority',  *)
(* 999)))                                                                  *)
(***************************************************************************)
\* the key function raises ValueError on some course
SortRaises(courses) ==
  \E i \in 1..Len(courses) :
     "priority" \in DOMAIN courses[i] /\ FloatRaises(courses[i]["priority"])

PriorityKey(course) ==
  IF "priority" \in DOMAIN course
  THEN FloatVal(course["priority"])
  ELSE DefaultPriority

\* a sort that is not stable: a course goes before the courses of equal key
\* that precede it in the input
RECURSIVE SortedUnstable(_)
SortedUnstable(courses) ==
  IF Len(courses) <= 1 THEN courses
  ELSE LET front == SortedUnstable(SubSeq(courses, 1, Len(courses) - 1))
           x == courses[Len(courses)]
           k == Cardinality({i \in 1..Len(front) :
                               PriorityKey(front[i]) < PriorityKey(x)})
       IN  SubSeq(front, 1, k) \o <<x>> \o SubSeq(front, k + 1, Len(front))

\* sorted() is stable: equal keys keep their input order
RECURSIVE SortedByPriority(_)
SortedByPriority(courses) ==
  IF Len(courses) <= 1 THEN courses
  ELSE LET front == SortedByPriority(SubSeq(courses, 1, Len(courses) - 1))
           x == courses[Len(courses)]
           k == Cardinality({i \in 1..Len(front) :
                               PriorityKey(front[i]) <= PriorityKey(x)})
       IN  SubSeq(front, 1, k) \o <<x>> \o SubSeq(front, k + 1, Len(front))

\* get_all_courses on the snapshot returned by get_cached_data: the sorted
\* list, or raised = TRUE when sorted() raises
get_all_courses(snapshot) ==
  IF SortRaises(snapshot)
  THEN [raised |-> TRUE, value |-> <<>>]
  ELSE [raised |-> FALSE, value |-> SortedByPriority(snapshot)]

(***************************************************************************)
(* get_course_by_keyword                                                   *)
(***************************************************************************)
\* lines 156-160: the keywords test of one course
MatchesKeywords(course, keyword_lower) ==
  LET keywords == Get(course, "keywords", <<>>)
  IN  /\ keywords # <<>>
      /\ "|" \in Range(keywords)
      /\ \E k \in Range(Split(keywords, "|")) :
            IsSubstr(Lower(Strip(k)), keyword_lower)

\* lines 163-165
MatchesName(course, keyword_lower) ==
  IsSubstr(keyword_lower, Lower(Get(course, "course_name", <<>>)))

\* lines 168-170
MatchesId(course, keyword_lower) ==
  keyword_lower = Lower(Lower(Get(course, "course_id", <<>>)))

Matches(course, keyword_lower) ==
  \/ MatchesKeywords(course, keyword_lower)
  \/ MatchesName(course, keyword_lower)
  \/ MatchesId(course, keyword_lower)

\* lines 148-172 after courses = self.get_all_courses(): the first course of
\* the sorted list that matches; Optional[Dict] is a list of at most one
\* course here (<<>> is None)
get_course_by_keyword(keyword, courses) ==
  IF keyword = <<>> \/ Strip(keyword) = <<>> THEN <<>>
  ELSE LET keyword_lower == Strip(Lower(keyword))
           hits == {i \in 1..Len(courses) : Matches(courses[i], keyword_lower)}
       IN  IF hits = {} THEN <<>>
           ELSE <<courses[CHOOSE i \in hits : \A j \in hits : i <= j]>>

(***************************************************************************)
(* The spreadsheet: value ranges the Sheets API can return.  The API drops *)
(* trailing empty cells, so a row may be shorter than the header line.     *)
(***************************************************************************)
CourseHeaders == <<"course_id", "course_name", "keywords", "is_active", "priority">>

\* a courses sheet that has no is_active and no priority column
CourseHeadersMin == <<"course_id", "course_name", "keywords">>

FaqHeaders == <<"faq_id", "q_keywords", "answer", "is_active">>

\* course_id, course_name, keywords, is_active, priority
CourseRowList ==
  << << <<"s">>, <<"s", "m">>, <<"a", "|", "b">>, <<"t", "r", "u", "e">>, <<"5">> >>,
    << <<"t">>, <<"t", "m">>, <<"a", "|", "b">>, <<"t", "r", "u", "e">>, <<"5">> >>,
    << <<"d">>, <<"d", "n">>, <<"b", "|", "a">>, <<" ", "T", "R", "U", "E">>, <<"1", "0">> >>,
    << <<"e">>, <<"e", "n">>, <<"a", "|">>, <<"T", "r", "u", "e">>, <<"1">> >>,
    << <<"g">>, <<"g", "d">>, <<"a">>, <<"t", "r", "u", "e">> >>,
    << <<"h">>, <<"h", "b">>, <<"b", "|", "a">>, <<"t", "r", "u", "e">>, <<"x">> >>,
    << <<"k">>, <<"k", "w">>, <<"b", "|", "a">>, <<"1">>, <<"1">> >>,
    << <<"y">>, <<"y", "z">>, <<"|", "a">>, <<"y", "e", "s">>, <<"2">> >>,
    << <<"f">>, <<"f", "n">>, <<"a", "|", "b">>, <<>>, <<"2">> >>,
    << <<"x">>, <<"x", "y">>, <<"a", "|", "b">>, <<"f", "a", "l", "s", "e">>, <<"x">> >>,
    << <<"w">>, <<"w", "v">>, <<"a", "b">>, <<"t", "r", "u", "e">>, <<"3">> >> >>

CourseRows == Range(CourseRowList)

RECURSIVE SeqsUpTo(_, _)
SeqsUpTo(S, n) ==
  IF n = 0 THEN {<<>>}
  ELSE LET shorter == SeqsUpTo(S, n - 1)
       IN  shorter \cup {Append(q, x) : q \in shorter, x \in S}

\* every courses sheet of at most MaxRows rows under either header line, and
\* the sheet without any value
CourseSheets ==
  {<<>>} \cup {<<h>> \o rows : h \in {CourseHeaders, CourseHeadersMin},
                              rows \in SeqsUpTo(CourseRows, MaxRows)}

\* faq_id, q_keywords, answer, is_active
FaqRows ==
  << << <<"1">>, <<"p">>, <<"a">>, <<"t", "r", "u", "e">> >>,
     << <<"2">>, <<"h">>, <<"b">>, <<"y", "e", "s">> >> >>

FaqSheets == {<<>>, <<FaqHeaders>> \o FaqRows}

\* the sheets the server is run against: a courses sheet whose priorities are
\* numbers and one with a course that has no priority cell
ServerCourseSheets ==
  { <<CourseHeaders, CourseRowList[1], CourseRowList[3]>>,
    <<CourseHeaders, CourseRowList[1], CourseRowList[5]>> }

\* sheet names of the two datasets
Datasets == {"courses", "faq"}

(***************************************************************************)
(* Webhook payloads                                                        *)
(***************************************************************************)
\* simple_greetings, abbreviated: "su" is 'сайн уу', "hi" is 'hi'
simple_greetings == {<<"s", "u">>, <<"h", "i">>}

\* the message put in place of an empty one (lines 453-454): 'сайн уу'
DefaultMessage == <<"s", "u">>

\* message texts: empty, blank, greetings, course words, "p" for a price
\* word ('үнэ'), "z" for a word no course mentions
Messages ==
  { <<>>, <<" ">>, <<"h", "i">>, <<"H", "i", " ">>, <<"a">>, <<"m">>, <<"B", " ">>,
    <<"p">>, <<"z">>, <<"a", "b">> }

\* fmt: which of the four shapes of lines 436-448 the JSON body has ("empty":
\* a body that is falsy); id: the subscriber id ("" when absent or null);
\* kind: the message field is a string ("text"), absent ("missing") or JSON
\* null ("null")
Payloads ==
  {[fmt |-> "subscriber_id", id |-> "u1", kind |-> "text", text |-> m] : m \in Messages}
  \cup {[fmt |-> f, id |-> i, kind |-> k, text |-> IF k = "text" THEN <<"a">> ELSE <<>>] :
          f \in {"subscriber", "subscriber_id", "data", "unknown"},
          i \in {"u1", ""},
          k \in {"text", "missing", "null"}}
  \cup {[fmt |-> "empty", id |-> "", kind |-> "missing", text |-> <<>>]}

\* lines 433-448: subscriber_id and user_message of a payload; raised when
\* .strip() is called on None (a null message)
ParsePayload(p) ==
  [raised |-> p.kind = "null",
   subscriber_id |-> IF p.fmt = "unknown" THEN "unknown" ELSE p.id,
   user_message |->
     IF p.kind = "text" THEN Strip(p.text)
     ELSE IF p.fmt = "unknown" THEN Strip(DefaultMessage)
     ELSE Strip(<<>>)]

(***************************************************************************)
(* State                                                                   *)
(***************************************************************************)
\* request threads of the Flask server (app.run serves each request in its
\* own thread)
Threads == {"t1", "t2"}

VARIABLES
  sheet,    \* the spreadsheet: sheet name -> value range
  up,       \* sheets_service / ai_service are not None (lines 361-371)
  memo,     \* the lru_cache(maxsize=1) of get_cached_data: at most one entry
            \* (key, value; loaded is history, the time it was stored)
  now,      \* wall clock, seconds
  th,       \* thread -> the request it serves and its local variables
  served,   \* requests received so far
  good,     \* history: sheet name -> the last snapshot fetched without error
  reads     \* history: sheet name -> when its last completed cache read
            \* returned, and what

vars == <<sheet, up, memo, now, th, served, good, reads>>

IdleThread ==
  [pc |-> "idle", route |-> "none", payload |-> <<>>, user_message |-> <<>>,
   call |-> "none", data |-> <<>>, fetch_ok |-> TRUE,
   stale |-> <<>>, snapshot |-> <<>>, last |-> <<>>,
   all_courses |-> <<>>, all_faqs |-> <<>>, matched_courses |-> <<>>,
   context |-> [courses |-> <<>>, faqs |-> <<>>],
   status |-> 0, text |-> "", nreads |-> 0, nfetches |-> 0, looked_up |-> FALSE]

\* the sheet name a call reads: get_all_courses (also from
\* get_course_by_keyword) reads "courses", get_all_faqs reads "faq"
DatasetOf(call) == IF call = "all_faqs" THEN "faq" ELSE "courses"

\* outcomes of AIService.generate_response, every one a text: the model's
\* answer, the keyword answer of _generate_fallback_response, or one of the
\* fixed apologies of lines 191, 230 and 241
AIOutcomes == {"ai_text", "ai_fallback", "ai_apology"}

\* an exception leaves the route: the webhook's except clause answers with
\* the apology and status 500 (lines 503-510); /courses and /faqs have no
\* try, Flask's 500 handler answers (lines 629-632)
Fail(r) ==
  [r EXCEPT !.pc = "done", !.call = "none", !.status = 500,
            !.text = IF r.route = "webhook" THEN "technical_error" ELSE "flask_500"]

\* lines 472-475: context_data, then on to generate_response
ToGenerate(r) ==
  [r EXCEPT !.pc = "generate", !.call = "none",
            !.context = [courses |-> IF r.matched_courses # <<>>
                                     THEN r.matched_courses
                                     ELSE Take(r.all_courses, 4),
                         faqs |-> Take(r.all_faqs, 5)]]

\* get_cached_data returned v to the call that thread record r is in: the
\* rest of that call and the route up to its next cache read
Return(r, v) ==
  CASE r.call = "all_courses" ->
         LET c == get_all_courses(v)
         IN  IF c.raised THEN Fail(r)
             ELSE IF r.route = "courses"
             THEN [r EXCEPT !.all_courses = c.value, !.pc = "done", !.call = "none",
                            !.status = 200, !.text = "courses_json"]
             ELSE [r EXCEPT !.all_courses = c.value, !.pc = "lookup",
                            !.call = "all_faqs"]
    [] r.call = "all_faqs" ->
         IF r.route = "faqs"
         THEN [r EXCEPT !.all_faqs = v, !.pc = "done", !.call = "none",
                        !.status = 200, !.text = "faqs_json"]
         ELSE IF Lower(r.user_message) \notin simple_greetings
         THEN [r EXCEPT !.all_faqs = v, !.pc = "lookup", !.call = "by_keyword",
                        !.looked_up = TRUE]
         ELSE ToGenerate([r EXCEPT !.all_faqs = v])
    [] r.call = "by_keyword" ->
         LET c == get_all_courses(v)
         IN  IF c.raised THEN Fail([r EXCEPT !.snapshot = v])
             ELSE ToGenerate([r EXCEPT
                    !.snapshot = v,
                    !.matched_courses = get_course_by_keyword(r.user_message, c.value)])

\* history: what a cache read that has just returned did.  It is kept in
\* th[t].last until the thread's next step: the sheet name, the time and the
\* value of the return, whether get_sheet_data was called and failed, when the
\* value came out of get_sheet_data (now, or when the memo entry was stored),
\* the last good snapshot at that fetch, and the previous completed read of
\* the same sheet name
Observed(d, value, fetched, failed, loaded, stale) ==
  <<[ds |-> d, at |-> now, value |-> value, fetched |-> fetched, failed |-> failed,
     loaded |-> loaded, stale |-> stale, prev |-> reads[d]]>>

\* the server starts with an empty memo, against some spreadsheet
Init ==
  /\ sheet \in {[courses |-> c, faq |-> <<FaqHeaders>> \o FaqRows] :
                  c \in ServerCourseSheets}
  /\ up \in BOOLEAN
  /\ memo = <<>>
  /\ now = 0
  /\ th = [t \in Threads |-> IdleThread]
  /\ served = 0
  /\ good = [d \in Datasets |-> <<>>]
  /\ reads = [d \in Datasets |-> <<>>]

\* one request against each spreadsheet of the catalogue
InitMatch ==
  /\ sheet \in {[courses |-> c, faq |-> f] : c \in CourseSheets, f \in FaqSheets}
  /\ up = TRUE
  /\ memo = <<>>
  /\ now = 0
  /\ th = [t \in Threads |-> IdleThread]
  /\ served = MaxRequests - 1
  /\ good = [d \in Datasets |-> <<>>]
  /\ reads = [d \in Datasets |-> <<>>]

(***************************************************************************)
(* Routes                                                                  *)
(***************************************************************************)
\* POST /manychat/webhook with JSON body p, lines 427-463, up to the first
\* cache read
Webhook(t, p) ==
  /\ th[t].pc = "idle"
  /\ served < MaxRequests
  /\ served' = served + 1
  /\ LET r == [IdleThread EXCEPT !.route = "webhook", !.payload = <<p>>]
         q == ParsePayload(p)
         user_message == IF q.user_message = <<>> THEN DefaultMessage
                         ELSE q.user_message
     IN  th' = [th EXCEPT ![t] =
           IF p.fmt = "empty"
           THEN [r EXCEPT !.pc = "done", !.status = 400, !.text = "error_empty"]
           ELSE IF q.raised THEN Fail(r)
           ELSE IF q.subscriber_id = ""
           THEN [r EXCEPT !.pc = "done", !.status = 400, !.text = "error_no_subscriber"]
           ELSE IF up
           THEN [r EXCEPT !.user_message = user_message, !.pc = "lookup",
                          !.call = "all_courses"]
           ELSE ToGenerate([r EXCEPT !.user_message = user_message])]
  /\ UNCHANGED <<sheet, up, memo, now, good, reads>>

ManychatWebhook(t) == \E p \in Payloads : Webhook(t, p)

\* the webhook with a subscriber id and a text message out of texts
WebhookText(t, texts) ==
  \E p \in Payloads : p.fmt = "subscriber_id" /\ p.id = "u1" /\ p.kind = "text"
                      /\ p.text \in texts /\ Webhook(t, p)

ManychatMessage(t) == WebhookText(t, Messages)

\* a greeting or a course word
ManychatShort(t) == WebhookText(t, {<<"h", "i">>, <<"a">>})

\* GET /courses (lines 569-596) and GET /faqs (lines 598-620)
GetList(t, route) ==
  /\ th[t].pc = "idle"
  /\ served < MaxRequests
  /\ served' = served + 1
  /\ LET r == [IdleThread EXCEPT !.route = route]
     IN  th' = [th EXCEPT ![t] =
           IF up
           THEN [r EXCEPT !.pc = "lookup",
                          !.call = IF route = "courses" THEN "all_courses" ELSE "all_faqs"]
           ELSE [r EXCEPT !.pc = "done", !.status = 200,
                          !.text = IF route = "courses" THEN "courses_json" ELSE "faqs_json"]]
  /\ UNCHANGED <<sheet, up, memo, now, good, reads>>

GetCourses(t) == GetList(t, "courses")

GetFaqs(t) == GetList(t, "faqs")

(***************************************************************************)
(* get_cached_data: the lru_cache wrapper around get_sheet_data.  The      *)
(* wrapper looks the key up, calls the function on a miss without holding  *)
(* any lock, and stores the result afterwards.                             *)
(***************************************************************************)
\* the key is in the memo: its value is returned, nothing is fetched
CacheHit(t) ==
  LET r == th[t]
      d == DatasetOf(r.call)
  IN  /\ r.pc = "lookup"
      /\ memo # <<>> /\ memo[1].key = d
      /\ th' = [th EXCEPT ![t] =
                  Return([r EXCEPT !.nreads = @ + 1,
                                   !.last = Observed(d, memo[1].value, FALSE, FALSE,
                                                     memo[1].loaded, good[d])],
                         memo[1].value)]
      /\ reads' = [reads EXCEPT ![d] = <<[at |-> now, value |-> memo[1].value]>>]
      /\ UNCHANGED <<sheet, up, memo, now, served, good>>

\* the key is not in the memo: get_sheet_data is called
CacheMiss(t) ==
  LET r == th[t]
      d == DatasetOf(r.call)
  IN  /\ r.pc = "lookup"
      /\ ~(memo # <<>> /\ memo[1].key = d)
      /\ th' = [th EXCEPT ![t] = [r EXCEPT !.pc = "fetch", !.last = <<>>]]
      /\ UNCHANGED <<sheet, up, memo, now, served, good, reads>>

\* get_sheet_data with the outcome `result` of the Sheets API call
Fetch(t, result) ==
  LET r == th[t]
      d == DatasetOf(r.call)
      data == get_sheet_data(result)
  IN  /\ r.pc = "fetch"
      /\ th' = [th EXCEPT ![t] = [r EXCEPT !.pc = "store", !.data = data,
                                           !.fetch_ok = result.ok,
                                           !.stale = good[d],
                                           !.nfetches = @ + 1]]
      /\ good' = IF result.ok THEN [good EXCEPT ![d] = <<data>>] ELSE good
      /\ UNCHANGED <<sheet, up, memo, now, served, reads>>

FetchOk(t) == Fetch(t, [ok |-> TRUE, values |-> sheet[DatasetOf(th[t].call)]])

FetchFail(t) == Fetch(t, [ok |-> FALSE, values |-> <<>>])

\* a memo of maxsize 2: the new entry is put in front of the one there is
MemoKeepsTwo(m, key, value, loaded) ==
  IF m # <<>> /\ m[1].key = key THEN m
  ELSE Take(<<[key |-> key, value |-> value, loaded |-> loaded]>> \o m, 2)

\* the wrapper stores the result unless the key came into the memo meanwhile;
\* with maxsize=1 a new entry takes the place of whatever entry there is
MemoAfterStore(m, key, value, loaded) ==
  IF m # <<>> /\ m[1].key = key THEN m
  ELSE <<[key |-> key, value |-> value, loaded |-> loaded]>>

CacheStore(t) ==
  LET r == th[t]
      d == DatasetOf(r.call)
  IN  /\ r.pc = "store"
      /\ memo' = MemoAfterStore(memo, d, r.data, now)
      /\ th' = [th EXCEPT ![t] =
                  Return([r EXCEPT !.nreads = @ + 1, !.data = <<>>, !.stale = <<>>,
                                   !.fetch_ok = TRUE,
                                   !.last = Observed(d, r.data, TRUE, ~r.fetch_ok,
                                                     now, r.stale)],
                         r.data)]
      /\ reads' = [reads EXCEPT ![d] = <<[at |-> now, value |-> r.data]>>]
      /\ UNCHANGED <<sheet, up, now, served, good>>

(***************************************************************************)
(* Reply                                                                   *)
(***************************************************************************)
\* lines 477-501: the reply text, returned with status 200
Generate(t) ==
  /\ th[t].pc = "generate"
  /\ \E out \in AIOutcomes :
        th' = [th EXCEPT ![t] = [@ EXCEPT !.pc = "done", !.status = 200,
                                          !.last = <<>>,
                                          !.text = IF up THEN out ELSE "no_ai_service"]]
  /\ UNCHANGED <<sheet, up, memo, now, served, good, reads>>

\* the response is sent and the thread ends
Respond(t) ==
  /\ th[t].pc = "done"
  /\ th' = [th EXCEPT ![t] = IdleThread]
  /\ UNCHANGED <<sheet, up, memo, now, served, good, reads>>

Tick ==
  /\ now + TickStep <= MaxTime
  /\ now' = now + TickStep
  /\ UNCHANGED <<sheet, up, memo, th, served, good, reads>>

\* the steps of the cache read and of the reply, for one thread
Serve(t) ==
  \/ CacheHit(t)
  \/ CacheMiss(t)
  \/ FetchOk(t)
  \/ FetchFail(t)
  \/ CacheStore(t)
  \/ Generate(t)
  \/ Respond(t)

\* requests served one after the other
Next ==
  \/ ManychatWebhook("t1")
  \/ GetCourses("t1")
  \/ GetFaqs("t1")
  \/ Serve("t1")
  \/ Tick

Spec == Init /\ [][Next]_vars

\* one thread, one webhook message, no fetch error; the memo starts empty and
\* the request reads courses, faq, courses, so no lookup of it is a hit
NextMatch ==
  \/ ManychatMessage("t1")
  \/ CacheMiss("t1")
  \/ FetchOk("t1")
  \/ CacheStore("t1")
  \/ Generate("t1")
  \/ Respond("t1")

SpecMatch == InitMatch /\ [][NextMatch]_vars

\* requests served concurrently, each in its own thread
NextConc ==
  \E t \in Threads :
     \/ ManychatShort(t)
     \/ GetCourses(t)
     \/ GetFaqs(t)
     \/ Serve(t)

SpecConc == Init /\ [][NextConc]_vars

(***************************************************************************)
(* Vocabulary of the properties                                            *)
(***************************************************************************)
\* the JSON body of the request thread t serves
Body(t) == th[t].payload[1]

\* thread t has answered a webhook request
Answered(t) == th[t].route = "webhook" /\ th[t].pc = "done"

\* the body parses and carries a subscriber id
HasSubscriber(p) == p.fmt # "empty" /\ ParsePayload(p).subscriber_id # ""

\* ... and its message, when there is one, is a string
WellFormed(p) == HasSubscriber(p) /\ p.kind # "null"

\* the message is missing or empty
EmptyMessage(p) == p.kind = "missing" \/ (p.kind = "text" /\ Strip(p.text) = <<>>)

\* the cache read that has just returned to thread t
Last(t) == th[t].last[1]

\* is_active values the specification calls truthy: true, 1, yes or empty
Truthy(cell) ==
  Lower(Strip(cell)) \in {<<"t", "r", "u", "e">>, <<"1">>, <<"y", "e", "s">>, <<>>}

\* the priority the specification gives a course: 999 when absent, empty or
\* not a number
SpecPriority(course) ==
  IF "priority" \notin DOMAIN course \/ FloatRaises(course["priority"])
  THEN DefaultPriority
  ELSE FloatVal(course["priority"])

\* price/payment vocabulary ("p" stands for 'үнэ') and course-hint tokens
\* (ids, names and keywords of the catalogue's courses)
PriceVocabulary == {<<"p">>}

CourseHints ==
  UNION {({Lower(row[1]), Lower(row[2])}
            \cup {Lower(Strip(k)) : k \in Range(Split(row[3], "|"))}) \ {<<>>} :
         row \in CourseRows}

PriceWithoutHint(m) ==
  /\ \E w \in PriceVocabulary : IsSubstr(w, Lower(m))
  /\ \A h \in CourseHints : ~IsSubstr(h, Lower(m))

\* indices of the courses of snap that match the message m
Matching(snap, m) ==
  {i \in 1..Len(snap) : Matches(snap[i], Strip(Lower(m)))}

(***************************************************************************)
(* Properties                                                              *)
(***************************************************************************)
\* C1: every webhook request whose body parses and carries a subscriber id
\* is answered with one text reply and an HTTP success status, also when an
\* internal step (sheet read, course ordering, matching, generation) fails.
C1_AlwaysSuccess ==
  \A t \in Threads :
     Answered(t) /\ WellFormed(Body(t)) =>
        th[t].status = 200 /\ th[t].text # ""

\* C2: a cache read whose fetch failed returns the last good snapshot of that
\* dataset if there is one, and an empty collection only if there is none.
C2_StaleOnFailure ==
  \A t \in Threads :
     th[t].last # <<>> /\ Last(t).failed =>
        Last(t).value = IF Last(t).stale = <<>> THEN <<>> ELSE Last(t).stale[1]

\* C3: two reads of the same dataset less than CACHE_TTL apart return the
\* same snapshot and the second one fetches nothing, whatever was read in
\* between.
C3_IdempotentWithinTTL ==
  \A t \in Threads :
     (/\ th[t].last # <<>>
      /\ Last(t).prev # <<>>
      /\ Last(t).at - Last(t).prev[1].at < CACHE_TTL)
     => Last(t).value = Last(t).prev[1].value /\ ~Last(t).fetched

\* C4: a cache read never returns a snapshot whose expiry, load time plus
\* CACHE_TTL, has passed.
C4_NeverExpired ==
  \A t \in Threads :
     th[t].last # <<>> => Last(t).at < Last(t).loaded + CACHE_TTL

\* the threads that are inside get_sheet_data for dataset d, or hold its
\* result and have not stored it yet
Fetching(d) ==
  {t \in Threads : th[t].pc \in {"fetch", "store"} /\ DatasetOf(th[t].call) = d}

\* C5: single flight: at most one fetch of a dataset is outstanding at any
\* time.
C5_SingleFlight ==
  \A d \in Datasets : Cardinality(Fetching(d)) <= 1

\* C6: a fetched row is in the snapshot, and so visible to every listing and
\* matching operation, exactly when its is_active value is true, 1, yes or
\* empty.
C6_VisibleIffTruthy ==
  \A t \in Threads :
     (/\ th[t].last # <<>>
      /\ Last(t).fetched /\ ~Last(t).failed
      /\ sheet[Last(t).ds] # <<>>)
     => LET values == sheet[Last(t).ds]
        IN  \A i \in 2..Len(values) :
               LET item == ZipRow(Head(values), values[i])
               IN  item \in Range(Last(t).value)
                     <=> Truthy(Get(item, "is_active", <<>>))

C8_DefaultPriority ==
  \A t \in Threads :
     LET r == th[t]
     IN  (/\ r.route = "webhook"
          /\ r.last # <<>>
          /\ r.nreads = 1)
         => /\ r.status # 500
            /\ Len(r.all_courses) = Len(Last(t).value)
            /\ Range(r.all_courses) = Range(Last(t).value)
            /\ \A i, j \in 1..Len(r.all_courses) :
                  i < j => SpecPriority(r.all_courses[i]) <= SpecPriority(r.all_courses[j])

\* C9: a webhook request whose message is empty or missing is answered with
\* a fixed reply (not a generated one), not with an error, without any cache
\* read or sheet fetch.
C9_EmptyShortCircuit ==
  \A t \in Threads :
     Answered(t) /\ HasSubscriber(Body(t)) /\ EmptyMessage(Body(t)) =>
        /\ th[t].status = 200
        /\ th[t].text \notin AIOutcomes
        /\ th[t].nreads = 0
        /\ th[t].nfetches = 0

\* C10: a message of the price/payment vocabulary without a course hint ends
\* in CLARIFY, a fixed question and not a generated reply, and no record
\* lookup or match is made for it.
C10_PriceClarify ==
  \A t \in Threads :
     Answered(t) /\ WellFormed(Body(t)) /\ PriceWithoutHint(th[t].user_message) =>
        /\ th[t].text \notin AIOutcomes
        /\ ~th[t].looked_up

\* the non-empty keyword tokens of a course: its keywords field split on
\* '|', each segment stripped and lowered
KeywordTokens(course) ==
  {Lower(Strip(k)) : k \in Range(Split(Get(course, "keywords", <<>>), "|"))} \ {<<>>}

\* the message m overlaps the course: one of its keyword tokens is in m, or
\* m names the course (by name or id)
Overlaps(course, m) ==
  \/ \E k \in KeywordTokens(course) : IsSubstr(k, m)
  \/ MatchesName(course, m)
  \/ MatchesId(course, m)

\* C11: for a message that overlaps no active course, get_course_by_keyword
\* returns no course and the request goes to FALLBACK: the general course
\* listing is the context, not a single matched course.
C11_NoOverlapFallback ==
  \A t \in Threads :
     LET r == th[t]
         m == Strip(Lower(r.user_message))
     IN  (/\ r.pc = "generate" /\ r.looked_up
          /\ \A i \in 1..Len(r.snapshot) : ~Overlaps(r.snapshot[i], m))
         => /\ r.matched_courses = <<>>
            /\ r.context.courses = Take(r.all_courses, 4)

\* the keyword tokens the specification gives a course: the segments of its
\* keywords field between '|' (the whole field when it has no '|'), stripped
\* and lowered, that are longer than one character
SpecTokens(course) ==
  {k \in KeywordTokens(course) : Len(k) > 1}

\* C12: the tokens a course is matched by are exactly the segments of its
\* keywords field that are longer than one character: when no course is named
\* by the message, a course is returned exactly when such a token of some
\* course is in the message.
C12_TokensLongerThanOne ==
  \A t \in Threads :
     LET r == th[t]
         m == Strip(Lower(r.user_message))
     IN  (/\ r.pc = "generate" /\ r.looked_up
          /\ \A i \in 1..Len(r.snapshot) :
                ~MatchesName(r.snapshot[i], m) /\ ~MatchesId(r.snapshot[i], m))
         => (r.matched_courses # <<>>
               <=> \E i \in 1..Len(r.snapshot) :
                      \E k \in SpecTokens(r.snapshot[i]) : IsSubstr(k, m))

\* C13: the memo of get_cached_data holds at most one snapshot, shared by
\* 'courses' and 'faq': after a read of one dataset the memo holds that
\* dataset's entry and nothing else, with the value the read returned, be it
\* the empty result of a failed fetch; so in the alternating reads of one
\* webhook request (courses, faq, courses) the second and third read fetch.
C13_OneSharedEntry ==
  /\ Len(memo) <= 1
  /\ \A t \in Threads :
        th[t].last # <<>> =>
           /\ memo # <<>>
           /\ memo[1].key = Last(t).ds
           /\ memo[1].value = Last(t).value
           /\ (th[t].route = "webhook" /\ th[t].nreads >= 2 => Last(t).fetched)

\* C13 happens: the third read of a webhook request has fetched, the fetch
\* failed although a good courses snapshot had been loaded, and the empty
\* result is what the memo holds
C13_Witness ==
  \E t \in Threads :
     /\ th[t].route = "webhook"
     /\ th[t].nreads = 3
     /\ th[t].last # <<>>
     /\ Last(t).fetched /\ Last(t).failed
     /\ good["courses"] # <<>> /\ good["courses"][1] # <<>>
     /\ memo = <<[key |-> "courses", value |-> <<>>, loaded |-> now]>>

====
